---- MODULE Spec2Model ----
(***************************************************************************)
(* Model of pbkdf2/src/hasher.rs: the password-hash adapter of PBKDF2.     *)
(*                                                                         *)
(* Text is a sequence of one-character strings.  Machine integers are      *)
(* little-endian sequences of 16-bit limbs so that u32 (2 limbs) and usize *)
(* (4 limbs, 64-bit target) keep their real width.  A fallible call        *)
(* returns [ok |-> TRUE, val |-> v] or [ok |-> FALSE, err |-> e], where    *)
(* e.kind is the HasherError variant.                                      *)
(*                                                                         *)
(* The callees from the password-hash crate (Value::decimal, ParamsString, *)
(* Salt, Output, B64) are modelled by their documented behaviour at the    *)
(* places hasher.rs calls them; the PBKDF2 primitive is a deterministic    *)
(* function that fills the whole output buffer.                            *)
(***************************************************************************)
EXTENDS Integers, Sequences, FiniteSets, TLC

VARIABLES
    sha1,   \* whether the build enables the "sha1" feature
    pc,     \* "idle" before the call, "strip" inside b64_strip's loop, "done" after
    call,   \* the call made: [<operation> |-> [args, res, calls]]
    s       \* b64_strip's local slice

vars == <<sha1, pc, call, s>>

\* Option<T>
None == <<>>

Some(x) == <<x>>

----------------------------------------------------------------------------
(* Results *)

Ok(v) == [ok |-> TRUE, val |-> v]

Err(kind, detail) == [ok |-> FALSE, err |-> [kind |-> kind, detail |-> detail]]

----------------------------------------------------------------------------
(* Machine integers *)

LimbBase == 256 * 256

U32Limbs == 2

UsizeLimbs == 4

\* the k-limb value of a small natural number (n < 2^31)
Limbs(n, k) ==
    [j \in 1..k |-> IF j = 1 THEN n % LimbBase
                    ELSE IF j = 2 THEN n \div LimbBase
                    ELSE 0]

U32(n) == Limbs(n, U32Limbs)

Usize(n) == Limbs(n, UsizeLimbs)

\* the all-ones value of k limbs: u32::MAX, usize::MAX
MaxOf(k) == [j \in 1..k |-> LimbBase - 1]

\* x < 2^31 as a natural number (the limbs above the second are zero)
IsSmall(x) ==
    /\ \A j \in 1..Len(x) : j > 2 => x[j] = 0
    /\ (Len(x) >= 2 => x[2] < LimbBase \div 2)

\* the natural number of a small value
ToNat(x) == x[1] + (IF Len(x) >= 2 THEN x[2] * LimbBase ELSE 0)

\* x <= n for a small natural number n
LeqNat(x, n) == IsSmall(x) /\ ToNat(x) <= n

\* a narrowing to 16 bits instead of 32
AsU32_narrow(x) == <<x[1], 0>>

\* `x as u32`: the low 32 bits of a usize
AsU32(x) == SubSeq(x, 1, U32Limbs)

\* u32 -> usize by try_into: lossless on a 64-bit target
U32ToUsize(x) == Ok([j \in 1..UsizeLimbs |-> IF j <= U32Limbs THEN x[j] ELSE 0])

RECURSIVE MulAdd10(_, _, _)
\* limbs j.. of x * 10 + c, with the carry out of the top limb
MulAdd10(x, c, j) ==
    IF j > Len(x) THEN [limbs |-> <<>>, carry |-> c]
    ELSE LET t    == x[j] * 10 + c
             rest == MulAdd10(x, t \div LimbBase, j + 1)
         IN  [limbs |-> <<t % LimbBase>> \o rest.limbs, carry |-> rest.carry]

RECURSIVE DivMod10(_, _, _)
\* x \div 10 and x % 10, from the top limb j down, r the running remainder
DivMod10(x, r, j) ==
    IF j = 0 THEN [q |-> <<>>, r |-> r]
    ELSE LET t     == r * LimbBase + x[j]
             lower == DivMod10(x, t % 10, j - 1)
         IN  [q |-> lower.q \o <<t \div 10>>, r |-> lower.r]

IsZero(x) == \A j \in 1..Len(x) : x[j] = 0

----------------------------------------------------------------------------
(* Decimal text *)

Digits == <<"0", "1", "2", "3", "4", "5", "6", "7", "8", "9">>

IsDigit(c) == \E d \in 1..10 : Digits[d] = c

DigitVal(c) == (CHOOSE d \in 1..10 : Digits[d] = c) - 1

RECURSIVE FormatDecimalFrom(_)
FormatDecimalFrom(x) ==
    IF IsZero(x) THEN <<>>
    ELSE LET dm == DivMod10(x, 0, Len(x))
         IN  FormatDecimalFrom(dm.q) \o <<Digits[dm.r + 1]>>

\* Display of an unsigned integer
FormatDecimal(x) == IF IsZero(x) THEN <<"0">> ELSE FormatDecimalFrom(x)

RECURSIVE ParseU32From(_, _, _)
\* str::parse::<u32>: accumulate digit by digit, failing on overflow
ParseU32From(text, j, acc) ==
    IF j > Len(text) THEN Ok(acc)
    ELSE LET m == MulAdd10(acc, DigitVal(text[j]), 1)
         IN  IF m.carry # 0 THEN Err("Params", "InvalidValue")
             ELSE ParseU32From(text, j + 1, m.limbs)

\* Value::decimal: non-empty, digits only, no leading zero, fits in u32
decimal(text) ==
    IF Len(text) = 0 THEN Err("Params", "InvalidValue")
    ELSE IF \E j \in 1..Len(text) : ~IsDigit(text[j]) THEN Err("Params", "InvalidValue")
    ELSE IF text[1] = "0" /\ Len(text) > 1 THEN Err("Params", "InvalidValue")
    ELSE ParseU32From(text, 1, U32(0))

----------------------------------------------------------------------------
(* b64_strip *)

ends_with(text, c) == Len(text) > 0 /\ text[Len(text)] = c

\* a lone `=` is left in place
strip_cond_keep_last(text) == ends_with(text, "=") /\ Len(text) > 1

\* the loop condition and the loop body of b64_strip
strip_cond(text) == ends_with(text, "=")

strip_step(text) == SubSeq(text, 1, Len(text) - 1)

RECURSIVE b64_strip(_)
b64_strip(text) ==
    IF strip_cond(text) THEN b64_strip(strip_step(text))
    ELSE text

----------------------------------------------------------------------------
(* AlgorithmId *)

PBKDF2_SHA1 == "pbkdf2"

PBKDF2_SHA256 == "pbkdf2-sha256"

PBKDF2_SHA512 == "pbkdf2-sha512"

\* the variants of the enum under the build's feature set
AlgorithmId == (IF sha1 THEN {"Sha1"} ELSE {}) \cup {"Sha256", "Sha512"}

\* an unknown identifier selects the default variant
AlgorithmId_new_default(id) ==
    IF sha1 /\ id = PBKDF2_SHA1 THEN Ok("Sha1")
    ELSE IF id = PBKDF2_SHA512 THEN Ok("Sha512")
    ELSE Ok("Sha256")

AlgorithmId_new(id) ==
    IF sha1 /\ id = PBKDF2_SHA1 THEN Ok("Sha1")
    ELSE IF id = PBKDF2_SHA256 THEN Ok("Sha256")
    ELSE IF id = PBKDF2_SHA512 THEN Ok("Sha512")
    ELSE Err("Algorithm", "")

AlgorithmId_ident(alg) ==
    CASE alg = "Sha1"   -> PBKDF2_SHA1
      [] alg = "Sha256" -> PBKDF2_SHA256
      [] alg = "Sha512" -> PBKDF2_SHA512

----------------------------------------------------------------------------
(* B64: the unpadded Base64 of the password-hash crate *)

B64Alphabet ==
    <<"A", "B", "C", "D", "E", "F", "G", "H", "I", "J", "K", "L", "M",
      "N", "O", "P", "Q", "R", "S", "T", "U", "V", "W", "X", "Y", "Z",
      "a", "b", "c", "d", "e", "f", "g", "h", "i", "j", "k", "l", "m",
      "n", "o", "p", "q", "r", "s", "t", "u", "v", "w", "x", "y", "z",
      "0", "1", "2", "3", "4", "5", "6", "7", "8", "9", "+", "/">>

IsB64Char(c) == \E v \in 1..64 : B64Alphabet[v] = c

B64Val(c) == (CHOOSE v \in 1..64 : B64Alphabet[v] = c) - 1

RECURSIVE B64Bytes(_, _)
\* the bytes of the 6-bit groups of text from position j on
B64Bytes(text, j) ==
    LET left == Len(text) - j + 1
        v(k) == B64Val(text[j + k])
        b0   == v(0) * 4 + v(1) \div 16
        b1   == (v(1) % 16) * 16 + v(2) \div 4
        b2   == (v(2) % 4) * 64 + v(3)
    IN  IF left <= 1 THEN <<>>
        ELSE IF left = 2 THEN <<b0>>
        ELSE IF left = 3 THEN <<b0, b1>>
        ELSE <<b0, b1, b2>> \o B64Bytes(text, j + 4)

\* decode text into a buffer of cap bytes
B64Decode(text, cap) ==
    IF \E j \in 1..Len(text) : ~IsB64Char(text[j]) THEN Err("B64", "InvalidEncoding")
    ELSE IF Len(text) % 4 = 1 THEN Err("B64", "InvalidEncoding")
    ELSE IF Len(B64Bytes(text, 1)) > cap THEN Err("B64", "InvalidLength")
    ELSE Ok(B64Bytes(text, 1))

----------------------------------------------------------------------------
(* Salt and Output of the password-hash crate *)

SaltArrLen == 64

SaltMinLength == 4

SaltMaxLength == 48

OutputMinLength == 10

OutputMaxLength == 64

\* Salt::new: a B64 text of permitted length
Salt_new(text) ==
    IF Len(text) < SaltMinLength THEN Err("Parse", "TooShort")
    ELSE IF Len(text) > SaltMaxLength THEN Err("Parse", "TooLong")
    ELSE IF \E j \in 1..Len(text) : ~IsB64Char(text[j]) THEN Err("Parse", "InvalidChar")
    ELSE Ok(text)

\* a salt buffer of twice the size
Salt_b64_decode_big(salt) == B64Decode(salt, 2 * SaltArrLen)

\* Salt::b64_decode into salt_arr
Salt_b64_decode(salt) == B64Decode(salt, SaltArrLen)

\* the length check of Output::init_with and Output::new
Output_check(len) ==
    IF ~LeqNat(len, OutputMaxLength) THEN Err("Output", "TooLong")
    ELSE IF ToNat(len) < OutputMinLength THEN Err("Output", "TooShort")
    ELSE Ok(ToNat(len))

\* Output::b64_decode
Output_b64_decode(text) ==
    LET d == B64Decode(text, OutputMaxLength)
    IN  IF ~d.ok THEN Err("Output", d.err.detail)
        ELSE IF ~Output_check(Usize(Len(d.val))).ok
             THEN Output_check(Usize(Len(d.val)))
             ELSE d

RECURSIVE SumOf(_)
SumOf(bytes) == IF bytes = <<>> THEN 0 ELSE (bytes[1] + SumOf(Tail(bytes))) % 256

\* the external derivation primitive: fills all n bytes of out, as a
\* deterministic function of the PRF, password, salt and rounds
pbkdf2(alg, password, salt_bytes, rounds, n) ==
    LET tag  == CASE alg = "Sha1" -> 1 [] alg = "Sha256" -> 2 [] alg = "Sha512" -> 3
        seed == tag * 64 + SumOf(password) + SumOf(salt_bytes) + rounds[1]
    IN  [j \in 1..n |-> (seed + j) % 256]

----------------------------------------------------------------------------
(* Params and ParamsString *)

DefaultRounds == 10000

DefaultOutputLength == 32

\* a zeroed Params instead of the documented defaults
Params_default_zeroed == [rounds |-> U32(0), output_length |-> Usize(0)]

Params_default == [rounds |-> U32(DefaultRounds), output_length |-> Usize(DefaultOutputLength)]

\* ParamsString::new
ParamsString_new == <<>>

\* ParamsString::add_decimal: append name=value, names are unique
add_decimal(ps, name, value) ==
    IF \E j \in 1..Len(ps) : ps[j].name = name THEN Err("Params", "DuplicateName")
    ELSE Ok(Append(ps, [name |-> name, value |-> FormatDecimal(value)]))

\* an unknown name ends parsing without an error
unknown_name_ignored(output) == Ok(output)

\* the arm of any other name: return Err(ParamsError::InvalidName)
unknown_name(output) == Err("Params", "InvalidName")

RECURSIVE ParamsFromLoop(_, _, _)
\* the loop of try_from(&ParamsString) from entry j on
ParamsFromLoop(input, j, output) ==
    IF j > Len(input) THEN Ok(output)
    ELSE LET ident == input[j].name
             d     == decimal(input[j].value)
         IN  IF ident = "i"
             THEN IF ~d.ok THEN d
                  ELSE ParamsFromLoop(input, j + 1, [output EXCEPT !.rounds = d.val])
             ELSE IF ident = "l"
             THEN IF ~d.ok THEN d
                  ELSE IF ~U32ToUsize(d.val).ok THEN Err("Params", "InvalidValue")
                  ELSE ParamsFromLoop(input, j + 1,
                           [output EXCEPT !.output_length = U32ToUsize(d.val).val])
             ELSE unknown_name(output)

\* impl TryFrom<&ParamsString> for Params
from_parameter_string(input) == ParamsFromLoop(input, 1, Params_default)

\* the `l` entry written from the wrong field
to_parameter_string_wrong_field(input) ==
    LET o1 == add_decimal(ParamsString_new, "i", input.rounds)
    IN  IF ~o1.ok THEN o1
        ELSE add_decimal(o1.val, "l", input.rounds)

\* impl TryFrom<Params> for ParamsString
to_parameter_string(input) ==
    LET o1 == add_decimal(ParamsString_new, "i", input.rounds)
    IN  IF ~o1.ok THEN o1
        ELSE add_decimal(o1.val, "l", AsU32(input.output_length))

----------------------------------------------------------------------------
(* Pbkdf2 *)

\* PasswordHasher::hash_password; calls lists the callees invoked, in order
hash_password(password, algorithm, params, salt) ==
    LET alg == AlgorithmId_new(IF algorithm = None THEN PBKDF2_SHA256
                                                        ELSE algorithm[1])
        sb  == Salt_b64_decode(salt)
        chk == Output_check(params.output_length)
        out == pbkdf2(alg.val, password, sb.val, params.rounds, chk.val)
        ps  == to_parameter_string(params)
        c1  == <<"AlgorithmId::new">>
        c2  == Append(c1, "Salt::b64_decode")
        c3  == Append(c2, "Output::init_with")
        c4  == c3 \o <<"pbkdf2", "Params::try_into">>
    IN  IF ~alg.ok THEN [res |-> alg, calls |-> c1]
        ELSE IF ~sb.ok THEN [res |-> sb, calls |-> c2]
        ELSE IF ~chk.ok THEN [res |-> chk, calls |-> c3]
        ELSE IF ~ps.ok THEN [res |-> ps, calls |-> c4]
        ELSE [res |-> Ok([algorithm |-> AlgorithmId_ident(alg.val),
                          version   |-> None,
                          params    |-> ps.val,
                          salt      |-> Some(salt),
                          hash      |-> Some(out)]),
              calls |-> c4]

\* simple::parse_hash: the legacy parser yields the triple of a well-formed
\* string and an error naming the cause otherwise
parse_hash(legacy) ==
    IF legacy.wellformed THEN Ok([rounds |-> legacy.rounds,
                                  salt   |-> legacy.salt,
                                  hash   |-> legacy.hash])
    ELSE Err("Check", legacy.cause)

\* the parser's own error passed through
parse_error_passthrough(e) == Err(e.kind, e.detail)

\* the map_err of upgrade_mcf_hash: every parser error becomes one Parse error
parse_error(e) == Err("Parse", "InvalidChar")

\* the default output length instead of the digest's length
upgrade_params_default_length(rounds, hash) ==
    [rounds |-> rounds, output_length |-> Usize(DefaultOutputLength)]

\* the Params that upgrade_mcf_hash builds from the triple and the decoded hash
upgrade_params(rounds, hash) == [rounds |-> rounds, output_length |-> Usize(Len(hash))]

\* McfHasher::upgrade_mcf_hash; calls lists the callees invoked, in order
upgrade_mcf_hash(legacy) ==
    LET parsed == parse_hash(legacy)
        salt   == Salt_new(b64_strip(parsed.val.salt))
        hash   == Output_b64_decode(b64_strip(parsed.val.hash))
        params == upgrade_params(parsed.val.rounds, hash.val)
        ps     == to_parameter_string(params)
        c1     == <<"simple::parse_hash">>
        c2     == c1 \o <<"b64_strip", "Salt::new">>
        c3     == c2 \o <<"b64_strip", "Output::b64_decode">>
        c4     == Append(c3, "Params::try_into")
    IN  IF ~parsed.ok THEN [res |-> parse_error(parsed.err), calls |-> c1]
        ELSE IF ~salt.ok THEN [res |-> salt, calls |-> c2]
        ELSE IF ~hash.ok THEN [res |-> hash, calls |-> c3]
        ELSE IF ~ps.ok THEN [res |-> ps, calls |-> c4]
        ELSE [res |-> Ok([algorithm |-> PBKDF2_SHA256,
                          version   |-> None,
                          params    |-> ps.val,
                          salt      |-> Some(salt.val),
                          hash      |-> Some(hash.val)]),
              calls |-> c4]

----------------------------------------------------------------------------
(* Inputs *)

MaxStripLen == 4

MaxEntries == 3

Rep(c, n) == [j \in 1..n |-> c]

SeqsUpTo(S, n) == UNION {[1..m -> S] : m \in 0..n}

StripTexts == SeqsUpTo({"A", "=", "b"}, MaxStripLen)

IdentSamples ==
    {"pbkdf2", "pbkdf2-sha256", "pbkdf2-sha512", "PBKDF2-SHA256", "Pbkdf2-sha512",
     "pbkdf2-sha", "pbkdf2-sha1", "pbkdf2-sha2560", "sha256", "argon2id"}

\* decimal texts with the u32 they denote
ValidDecimals ==
    {[text |-> <<"7">>, num |-> U32(7)],
     [text |-> <<"3", "2">>, num |-> U32(32)],
     [text |-> <<"4", "2", "9", "4", "9", "6", "7", "2", "9", "5">>, num |-> MaxOf(U32Limbs)]}

\* texts that are not u32 decimals: overflow, leading zero, non-digit
InvalidDecimals ==
    {<<"4", "2", "9", "4", "9", "6", "7", "2", "9", "6">>, <<"0", "7">>, <<"3", "a">>}

ValueTexts == {d.text : d \in ValidDecimals} \cup InvalidDecimals

ParamNames == {"i", "l", "x"}

ParamsStrings ==
    SeqsUpTo({[name |-> n, value |-> v] : n \in ParamNames, v \in ValueTexts}, MaxEntries)

RoundsSamples == {U32(1), U32(1000), U32(5000), MaxOf(U32Limbs)}

\* 0, 9, 10, 20, 32, 64, 65, 2^32-1, 2^32, 2^32+32, 2^48+20, usize::MAX
OutputLengthSamples ==
    {Usize(0), Usize(9), Usize(10), Usize(20), Usize(32), Usize(64), Usize(65),
     <<LimbBase - 1, LimbBase - 1, 0, 0>>, <<0, 0, 1, 0>>, <<32, 0, 1, 0>>,
     <<20, 0, 0, 1>>, MaxOf(UsizeLimbs)}

ParamsSamples ==
    {[rounds |-> r, output_length |-> l] : r \in RoundsSamples, l \in OutputLengthSamples}

PasswordSamples == {<<>>, <<112, 119>>}

\* salts: 3 bytes, 16 bytes, 64 bytes, 66 bytes, bad length, bad character, padded
SaltSamples ==
    {<<"Y", "W", "J", "j">>, Rep("A", 22), Rep("/", 86), Rep("/", 88),
     Rep("A", 5), <<"a", "!", "c", "d">>, <<"Y", "W", "J", "j", "=", "=">>}

LegacySalts ==
    {<<"Y", "W", "J", "j">>, <<"c", "2", "F", "s", "d", "A", "=", "=">>,
     <<"a", "b", "=">>, <<"a", "=", "c", "d", "=">>, Rep("A", 49), <<"=", "=">>}

\* digests: 20, 20, 32, 64, 66, 3 bytes, bad character, bad length
LegacyHashes ==
    {Rep("Q", 27) \o <<"=">>, Rep("Q", 27), Rep("z", 43) \o <<"=">>,
     Rep("/", 86) \o <<"=", "=">>, Rep("/", 88), <<"Y", "W", "J", "j", "=", "=">>,
     Rep("Q", 13) \o <<"=", "Q", "=", "=">>, Rep("Q", 17) \o <<"=">>}

LegacyCauses == {"InvalidFormat", "InvalidRounds", "MissingHash"}

LegacyStrings ==
    {[wellformed |-> c = "", cause |-> c, rounds |-> r, salt |-> st, hash |-> ht] :
        c \in LegacyCauses \cup {""}, r \in {U32(1), U32(5000)},
        st \in LegacySalts, ht \in LegacyHashes}

----------------------------------------------------------------------------
(* The caller makes one call *)

\* call has one field, named after the operation called, so that the calls
\* of different operations are records over different names
NoCall == [none |-> TRUE]

Called(args, res, calls) == [args |-> args, res |-> res, calls |-> calls]

Returned(c) ==
    /\ pc' = "done"
    /\ call' = c
    /\ UNCHANGED <<sha1, s>>

Init ==
    /\ sha1 \in BOOLEAN
    /\ pc = "idle"
    /\ call = NoCall
    /\ s = <<>>

HashPassword ==
    /\ pc = "idle"
    /\ \E password \in PasswordSamples, algorithm \in {None} \cup {Some(id) : id \in IdentSamples},
       params \in ParamsSamples, salt \in SaltSamples :
        LET r == hash_password(password, algorithm, params, salt)
        IN  Returned([hash_password |->
                          Called(<<password, algorithm, params, salt>>, r.res, r.calls)])

UpgradeMcfHash ==
    /\ pc = "idle"
    /\ \E legacy \in LegacyStrings :
        LET r == upgrade_mcf_hash(legacy)
        IN  Returned([upgrade_mcf_hash |-> Called(<<legacy>>, r.res, r.calls)])

AlgorithmIdNew ==
    /\ pc = "idle"
    /\ \E id \in IdentSamples :
        Returned([new |-> Called(<<id>>, AlgorithmId_new(id), <<>>)])

AlgorithmIdIdent ==
    /\ pc = "idle"
    /\ \E alg \in AlgorithmId :
        Returned([ident |-> Called(<<alg>>, AlgorithmId_ident(alg), <<>>)])

FromParameterString ==
    /\ pc = "idle"
    /\ \E input \in ParamsStrings :
        Returned([from_parameter_string |->
                      Called(<<input>>, from_parameter_string(input), <<>>)])

ToParameterString ==
    /\ pc = "idle"
    /\ \E input \in ParamsSamples :
        Returned([to_parameter_string |->
                      Called(<<input>>, to_parameter_string(input), <<>>)])

\* b64_strip, one loop iteration at a time
StripCall ==
    /\ pc = "idle"
    /\ \E text \in StripTexts :
        /\ pc' = "strip"
        /\ s' = text
        /\ call' = [b64_strip |-> Called(<<text>>, None, <<>>)]
        /\ UNCHANGED sha1

StripIter ==
    /\ pc = "strip"
    /\ strip_cond(s)
    /\ s' = strip_step(s)
    /\ UNCHANGED <<sha1, pc, call>>

StripReturn ==
    /\ pc = "strip"
    /\ ~strip_cond(s)
    /\ pc' = "done"
    /\ call' = [call EXCEPT !.b64_strip.res = Some(s)]
    /\ UNCHANGED <<sha1, s>>

Next ==
    \/ HashPassword
    \/ UpgradeMcfHash
    \/ AlgorithmIdNew
    \/ AlgorithmIdIdent
    \/ FromParameterString
    \/ ToParameterString
    \/ StripCall
    \/ StripIter
    \/ StripReturn

Spec == Init /\ [][Next]_vars

\* the loop of b64_strip is not suspended
FairSpec == Spec /\ WF_vars(StripIter) /\ WF_vars(StripReturn)

----------------------------------------------------------------------------
(* Properties *)

\* the call of operation op has returned
Done(op) == pc = "done" /\ DOMAIN call = {op}

\* the arguments, the result and the callees of the call made
TheCall == call[CHOOSE op \in DOMAIN call : TRUE]

Args == TheCall.args

Res == TheCall.res

Calls == TheCall.calls

\* the value fits in 32 bits
FitsU32(x) == \A j \in 1..Len(x) : j > U32Limbs => x[j] = 0

ValidTexts == {d.text : d \in ValidDecimals}

NumOf(text) == (CHOOSE d \in ValidDecimals : d.text = text).num

\* only `i`/`l` entries with valid decimal values
OnlyValidEntries(ps) ==
    \A j \in 1..Len(ps) : ps[j].name \in {"i", "l"} /\ ps[j].value \in ValidTexts

\* exactly one `i` entry followed by exactly one `l` entry
Canonical(ps) ==
    /\ Len(ps) = 2
    /\ ps[1].name = "i"
    /\ ps[2].name = "l"
    /\ OnlyValidEntries(ps)

\* C1: to_parameter_string returns an error for every Params whose
\* output_length exceeds 2^32-1, never a string with a truncated `l`.
C1_OverflowIsError ==
    (Done("to_parameter_string") /\ ~FitsU32(Args[1].output_length))
        => ~Res.ok

\* C2 (as stated): for every parameter string of valid `i`/`l` entries, any
\* subset and any order, to_parameter_string(from_parameter_string(ps)) = ps.
C2_RoundTripAnyEntries ==
    (Done("from_parameter_string") /\ OnlyValidEntries(Args[1]))
        => /\ Res.ok
           /\ to_parameter_string(Res.val) = Ok(Args[1])

\* C2 (amended): for every parameter string that is exactly one valid `i`
\* entry followed by one valid `l` entry, the round trip succeeds and
\* returns the same string.
C2_RoundTripCanonical ==
    (Done("from_parameter_string") /\ Canonical(Args[1]))
        => /\ Res.ok
           /\ to_parameter_string(Res.val) = Ok(Args[1])

C2_Witness ==
    /\ Done("from_parameter_string")
    /\ Canonical(Args[1])
    /\ NumOf(Args[1][2].value) = MaxOf(U32Limbs)
    /\ Res.ok

\* C3: AlgorithmId::new inverts AlgorithmId::ident on every variant, distinct
\* variants have distinct identifiers, and every identifier that is not
\* exactly one of the fixed identifiers is rejected with the Algorithm error.
C3_IdentBijection ==
    /\ Done("ident")
        => /\ AlgorithmId_new(Res) = Ok(Args[1])
           /\ \A other \in AlgorithmId \ {Args[1]} : AlgorithmId_ident(other) # Res
    /\ Done("new")
        => IF \E alg \in AlgorithmId : AlgorithmId_ident(alg) = Args[1]
           THEN Res.ok /\ AlgorithmId_ident(Res.val) = Args[1]
           ELSE Res = Err("Algorithm", "")

C3_Witness ==
    /\ Done("new")
    /\ Args[1] = "PBKDF2-SHA256"
    /\ Res = Err("Algorithm", "")

\* the entries of ps that carry name
EntriesOf(ps, name) == {j \in 1..Len(ps) : ps[j].name = name}

\* the value of the last entry carrying name, or dflt when there is none
LastOr(ps, name, dflt) ==
    IF EntriesOf(ps, name) = {} THEN dflt
    ELSE NumOf(ps[CHOOSE j \in EntriesOf(ps, name) :
                      \A k \in EntriesOf(ps, name) : k <= j].value)

\* C8: on a parameter string of valid `i`/`l` entries from_parameter_string
\* returns the default {10000, 32} with each field replaced by the value of
\* the last entry carrying its key.
C8_LastWriteOverDefault ==
    (Done("from_parameter_string") /\ OnlyValidEntries(Args[1]))
        => /\ Res.ok
           /\ Res.val.rounds = LastOr(Args[1], "i", <<10000, 0>>)
           /\ Res.val.output_length =
                  LastOr(Args[1], "l", <<32, 0>>) \o <<0, 0>>

C8_Witness ==
    /\ Done("from_parameter_string")
    /\ OnlyValidEntries(Args[1])
    /\ EntriesOf(Args[1], "l") = {}
    /\ \E j, k \in EntriesOf(Args[1], "i") :
           j < k /\ Args[1][j].value # Args[1][k].value
    /\ Res.ok

\* the position of the first entry whose name is neither `i` nor `l`
FirstUnknown(ps) ==
    CHOOSE j \in 1..Len(ps) :
        /\ ps[j].name \notin {"i", "l"}
        /\ \A k \in 1..(j - 1) : ps[k].name \in {"i", "l"}

\* C9: from_parameter_string fails on every parameter string containing a
\* name other than `i` or `l`, wherever it occurs; when the entries before
\* it are valid the error is the invalid-parameter-name error.
C9_UnknownNameRejected ==
    (Done("from_parameter_string")
        /\ \E j \in 1..Len(Args[1]) : Args[1][j].name \notin {"i", "l"})
        => /\ ~Res.ok
           /\ OnlyValidEntries(SubSeq(Args[1], 1, FirstUnknown(Args[1]) - 1))
                  => Res = Err("Params", "InvalidName")

C9_Witness ==
    /\ Done("from_parameter_string")
    /\ Len(Args[1]) = 3
    /\ Args[1][1].name = "l" /\ Args[1][1].value \in ValidTexts
    /\ Args[1][2].name = "x"
    /\ Args[1][3].name = "i" /\ Args[1][3].value \in ValidTexts
    /\ Res = Err("Params", "InvalidName")

\* the identifiers the build supports
FixedIdents == {PBKDF2_SHA256, PBKDF2_SHA512} \cup (IF sha1 THEN {PBKDF2_SHA1} ELSE {})

AlgSupported(algorithm) == algorithm = None \/ algorithm[1] \in FixedIdents

\* salts that are not B64 and salts of more than 64 raw bytes
MalformedSalts == {Rep("A", 5), <<"a", "!", "c", "d">>, <<"Y", "W", "J", "j", "=", "=">>}

OversizedSalts == {Rep("/", 88)}

SaltBad(salt) == salt \in MalformedSalts \cup OversizedSalts

\* an output_length outside what Output holds
LenBad(len) == len \notin {<<n, 0, 0, 0>> : n \in 10..64}

\* every field of the record is there
Populated(rec) ==
    /\ DOMAIN rec = {"algorithm", "version", "params", "salt", "hash"}
    /\ rec.algorithm \in FixedIdents
    /\ Len(rec.params) = 2
    /\ rec.salt # None
    /\ rec.hash # None

\* a result is a record or an error, never both
RecordOrError(res) ==
    IF res.ok THEN DOMAIN res = {"ok", "val"} /\ Populated(res.val)
    ELSE DOMAIN res = {"ok", "err"}

\* C4: a record returned by hash_password carries the supplied identifier
\* (SHA-256 when absent), no version, the salt as given, a hash of exactly
\* output_length bytes, and params that parse back to the supplied Params.
C4_HashRecordShape ==
    (Done("hash_password") /\ Res.ok)
        => LET algorithm == Args[2]
               params    == Args[3]
               salt      == Args[4]
               rec       == Res.val
           IN  /\ rec.algorithm = IF algorithm = None THEN "pbkdf2-sha256" ELSE algorithm[1]
               /\ rec.version = None
               /\ rec.salt = Some(salt)
               /\ rec.hash # None
               /\ <<Len(rec.hash[1]), 0, 0, 0>> = params.output_length
               /\ from_parameter_string(rec.params) = Ok(params)

C4_Witness ==
    /\ Done("hash_password")
    /\ Res.ok
    /\ Args[2] = None
    /\ Args[3] = [rounds |-> <<1000, 0>>, output_length |-> <<32, 0, 0, 0>>]
    /\ Len(Res.val.hash[1]) = 32

\* C5 (as stated): every hash_password call returns a populated record or an
\* error; an unsupported identifier yields an Algorithm error, a malformed
\* or oversized salt an Encoding error, an unholdable output_length a Params
\* error (the kind under which the spec files the Output error of the buffer).
C5_ErrorPerCause ==
    Done("hash_password")
        => /\ RecordOrError(Res)
           /\ ~AlgSupported(Args[2])
                  => ~Res.ok /\ Res.err.kind = "Algorithm"
           /\ SaltBad(Args[4])
                  => ~Res.ok /\ Res.err.kind = "B64"
           /\ LenBad(Args[3].output_length)
                  => ~Res.ok /\ Res.err.kind \in {"Params", "Output"}

\* C5 (amended): every hash_password call returns a populated record or an
\* error; the first failing step decides the error: an unsupported
\* identifier yields an Algorithm error; with a supported identifier a
\* malformed or oversized salt yields an Encoding error; with both valid an
\* unholdable output_length yields the Output error of the buffer.
C5_FirstFailureDecides ==
    Done("hash_password")
        => /\ RecordOrError(Res)
           /\ ~AlgSupported(Args[2])
                  => ~Res.ok /\ Res.err.kind = "Algorithm"
           /\ (AlgSupported(Args[2]) /\ SaltBad(Args[4]))
                  => ~Res.ok /\ Res.err.kind = "B64"
           /\ (AlgSupported(Args[2]) /\ ~SaltBad(Args[4])
                  /\ LenBad(Args[3].output_length))
                  => ~Res.ok /\ Res.err.kind = "Output"

C5_Witness ==
    /\ Done("hash_password")
    /\ AlgSupported(Args[2])
    /\ Args[4] \in OversizedSalts
    /\ LenBad(Args[3].output_length)
    /\ ~Res.ok
    /\ Res.err.kind = "B64"

\* the longest prefix of text that does not end in `=`
StripRef(text) ==
    SubSeq(text, 1, CHOOSE n \in 0..Len(text) :
                        /\ n = 0 \/ text[n] # "="
                        /\ \A k \in (n + 1)..Len(text) : text[k] = "=")

\* C6: the record upgrade_mcf_hash returns for a well-formed legacy string
\* has the SHA-256 identifier, no version, the parsed rounds, the decoded
\* hash's byte length as output_length, the salt text without trailing
\* padding and the bytes decoded from the hash text without trailing padding.
C6_UpgradeRecordShape ==
    (Done("upgrade_mcf_hash") /\ Args[1].wellformed /\ Res.ok)
        => LET legacy == Args[1]
               rec    == Res.val
               bytes  == B64Bytes(StripRef(legacy.hash), 1)
           IN  /\ rec.algorithm = "pbkdf2-sha256"
               /\ rec.version = None
               /\ from_parameter_string(rec.params) =
                      Ok([rounds |-> legacy.rounds,
                          output_length |-> <<Len(bytes), 0, 0, 0>>])
               /\ rec.salt = Some(StripRef(legacy.salt))
               /\ rec.hash = Some(bytes)

C6_Witness ==
    /\ Done("upgrade_mcf_hash")
    /\ Res.ok
    /\ Args[1].rounds = <<5000, 0>>
    /\ ends_with(Args[1].salt, "=")
    /\ ends_with(Args[1].hash, "=")
    /\ Len(Res.val.hash[1]) = 20
    /\ Res.val.params[2].value = <<"2", "0">>

\* C7: on a legacy string the parser rejects, whatever the cause,
\* upgrade_mcf_hash returns the one generic Parse error and no record, and
\* nothing after the parse (stripping, Salt::new, decoding) has been called.
C7_InvalidLegacyIsParseError ==
    (Done("upgrade_mcf_hash") /\ ~Args[1].wellformed)
        => /\ Res = [ok |-> FALSE, err |-> [kind |-> "Parse", detail |-> "InvalidChar"]]
           /\ Calls = <<"simple::parse_hash">>

C7_Witness ==
    /\ Done("upgrade_mcf_hash")
    /\ Args[1].cause = "InvalidRounds"
    /\ ~Res.ok
    /\ Res.err.kind = "Parse"

\* what b64_strip returned is the longest prefix without trailing `=`
C10_StripResult ==
    Done("b64_strip")
        => LET text == Args[1]
               out  == Res[1]
           IN  /\ Len(out) <= Len(text)
               /\ out = SubSeq(text, 1, Len(out))
               /\ ~ends_with(out, "=")
               /\ \A k \in (Len(out) + 1)..Len(text) : text[k] = "="
               /\ (~ends_with(text, "=") => out = text)
               /\ b64_strip(out) = out
               /\ b64_strip(text) = out

\* C10: b64_strip terminates on every input and returns the longest prefix
\* that does not end in `=`: trailing `=` are removed, everything else is
\* untouched, unpadded input is unchanged, and stripping is idempotent.
C10_StripTerminatesWithPrefix ==
    /\ []C10_StripResult
    /\ (pc = "strip") ~> (pc = "done")

C10_Witness ==
    /\ Done("b64_strip")
    /\ Args[1] = <<"=", "A", "=", "=">>
    /\ Res = Some(<<"=", "A">>)

====
